---- MODULE Spec2Model ----
(***************************************************************************)
(* A model of ghh-lib's open-addressing hash table (src/src/hashmap.c):    *)
(* FNV-1a hashing, linear probing, insert-or-update with growth, removal   *)
(* with backward-shift compaction and shrink, and teardown.  Pointers are  *)
(* integers: 0 is NULL, 1..NumKeys are the caller's key buffers, larger    *)
(* addresses are heap blocks holding key copies.                           *)
(***************************************************************************)
EXTENDS Integers, Sequences, FiniteSets, TLC

\* ------------------------------------------------------------------ bounds
\* the initial_size above the floor MIN_HASHMAP_SIZE given to hashmap_create
MaxHint == 9

\* ------------------------------------------------------- program constants
NULL == 0
MIN_HASHMAP_SIZE == 8
\* sizeof(hash_t) on a 64 bit target
HASH_BYTES == 8
\* 0x00000100000001b3, little-endian bytes
FNV_PRIME == <<179, 1, 0, 0, 0, 1, 0, 0>>
\* 0xcbf29ce484222325, little-endian bytes
FNV_BASIS == <<37, 35, 34, 132, 228, 156, 242, 203>>
\* the #else branch, a target with 32 bit pointers: sizeof(hash_t),
\* FNV_PRIME 0x01000193a and FNV_BASIS 0x811c9dc5, little-endian bytes
HASH_BYTES_32 == 4
FNV_PRIME_32 == <<58, 25, 0, 16>>
FNV_BASIS_32 == <<197, 157, 28, 129>>

\* ------------------------------------------------------------- environment
\* The caller's key buffers, each zero-terminated.  With variable-length
\* keys the one-byte strings hash to slots 7,7,5,5,0 (mod 8); with fixed
\* two-byte keys to 5,5,7,7,0: chains that collide and wrap around the end
\* of an 8 slot array, and five keys, enough to grow it.
KeyPool == << <<8, 0>>, <<16, 0>>, <<2, 0>>, <<10, 0>>, <<5, 0>> >>
NumKeys == Len(KeyPool)
CallerKeys == 1..NumKeys
\* value handles: NULL and one caller object
Values == {NULL, 1}
\* initial_size arguments given to hashmap_create: one below the floor
\* MIN_HASHMAP_SIZE and one above it
SizeHints == {MIN_HASHMAP_SIZE - 1, MaxHint}
\* key_size arguments: negative selects zero-terminated keys
KeySizes == {-1, 2}

\* ------------------------------------------------------------------ memory
\* mem.live: the heap blocks allocated by copy_key and not yet freed, with
\* their bytes.  mem.double_free: free() was given a block that is not live.
\* mem.vfreed: value handles given to free() by hashmap_destroy.
EmptyMem == [live |-> [a \in {} |-> <<>>], double_free |-> FALSE, vfreed |-> {}]

IsHeap(p) == p > NumKeys

\* the bytes a key pointer points at
Bytes(mem, p) == IF IsHeap(p) THEN mem.live[p] ELSE KeyPool[p]

\* The code never compares key pointers or computes with them, so which
\* address malloc returns is immaterial; the allocator of the model places
\* the copy of the caller's key p at Home(p) when that block is free, and at
\* Spare when it is not (an update allocates the new copy while the old one
\* is live).
Home(p) == NumKeys + p
Spare == 2 * NumKeys + 1

malloc(mem, home) == IF home \in DOMAIN mem.live THEN Spare ELSE home

Restrict(f, S) == [x \in S |-> f[x]]

\* free(p) of a key pointer: NULL is a no-op, a live block is released, and
\* anything else (a block already freed) is the undefined double free.
free(mem, p) ==
    IF p = NULL THEN mem
    ELSE IF p \in DOMAIN mem.live
    THEN [mem EXCEPT !.live = Restrict(mem.live, DOMAIN mem.live \ {p})]
    ELSE [mem EXCEPT !.double_free = TRUE]

\* ----------------------------------------------------------------- hashing
RECURSIVE xor(_, _)
xor(a, b) ==
    IF a = 0 THEN b
    ELSE IF b = 0 THEN a
    ELSE (((a % 2) + (b % 2)) % 2) + 2 * xor(a \div 2, b \div 2)

\* column k of the schoolbook product a * b (limbs are 1-based, low first)
Column(a, b, k) ==
    LET RECURSIVE col(_)
        col(i) == IF i > k THEN 0 ELSE (a[i] * b[k + 1 - i]) + col(i + 1)
    IN col(1)

\* a * b modulo 2^(8 * HASH_BYTES), the wrap-around of hash_t
MulWrap(a, b) ==
    LET RECURSIVE go(_, _, _)
        go(k, carry, acc) ==
            IF k > HASH_BYTES THEN acc
            ELSE LET t == Column(a, b, k) + carry
                 IN go(k + 1, t \div 256, Append(acc, t % 256))
    IN go(1, 0, <<>>)

\* hash ^= byte; hash *= FNV_PRIME;
FnvStep(hash, byte) == MulWrap([hash EXCEPT ![1] = xor(@, byte)], FNV_PRIME)

\* hash % m for a small m
HashMod(hash, m) ==
    LET RECURSIVE go(_, _)
        go(k, acc) == IF k = 0 THEN acc ELSE go(k - 1, ((acc * 256) + hash[k]) % m)
    IN go(HASH_BYTES, 0)

ZeroHash == [i \in 1..HASH_BYTES |-> 0]

\* faulty variant of HashTerminated: the terminator is hashed too
RECURSIVE HashTerminated_WithTerminator(_, _, _)
HashTerminated_WithTerminator(hash, bytes, i) ==
    IF bytes[i + 1] = 0 THEN FnvStep(hash, 0)
    ELSE HashTerminated_WithTerminator(FnvStep(hash, bytes[i + 1]), bytes, i + 1)

\* while (*bytes) { hash ^= *bytes++; hash *= FNV_PRIME; }
RECURSIVE HashTerminated(_, _, _)
HashTerminated(hash, bytes, i) ==
    IF bytes[i + 1] = 0 THEN hash
    ELSE HashTerminated(FnvStep(hash, bytes[i + 1]), bytes, i + 1)

\* for (i = 0; i < key_size; ++i) { hash ^= bytes[i]; hash *= FNV_PRIME; }
RECURSIVE HashFixed(_, _, _, _)
HashFixed(hash, bytes, i, n) ==
    IF i >= n THEN hash
    ELSE HashFixed(FnvStep(hash, bytes[i + 1]), bytes, i + 1, n)

\* the loops of hash_key over the bytes at a key pointer
HashLoop(key_size, bytes) ==
    IF key_size < 0
    THEN HashTerminated(FNV_BASIS, bytes, 0)
    ELSE HashFixed(FNV_BASIS, bytes, 0, key_size)

\* hash_key as the 32 bit build compiles it: the same loops over a four
\* byte hash_t, with the constants of the #else branch
MulWrap32(a, b) ==
    LET RECURSIVE go(_, _, _)
        go(k, carry, acc) ==
            IF k > HASH_BYTES_32 THEN acc
            ELSE LET t == Column(a, b, k) + carry
                 IN go(k + 1, t \div 256, Append(acc, t % 256))
    IN go(1, 0, <<>>)

FnvStep32(hash, byte) ==
    MulWrap32([hash EXCEPT ![1] = xor(@, byte)], FNV_PRIME_32)

RECURSIVE HashTerminated32(_, _, _)
HashTerminated32(hash, bytes, i) ==
    IF bytes[i + 1] = 0 THEN hash
    ELSE HashTerminated32(FnvStep32(hash, bytes[i + 1]), bytes, i + 1)

RECURSIVE HashFixed32(_, _, _, _)
HashFixed32(hash, bytes, i, n) ==
    IF i >= n THEN hash
    ELSE HashFixed32(FnvStep32(hash, bytes[i + 1]), bytes, i + 1, n)

HashLoop32(key_size, bytes) ==
    IF key_size < 0
    THEN HashTerminated32(FNV_BASIS_32, bytes, 0)
    ELSE HashFixed32(FNV_BASIS_32, bytes, 0, key_size)

\* the number of bytes of a zero-terminated key, terminator included
RECURSIVE NumBytes(_, _)
NumBytes(bytes, i) == IF bytes[i + 1] = 0 THEN i + 1 ELSE NumBytes(bytes, i + 1)

\* the bytes of the caller's key p that the table's key mode covers
KeySpan(key_size, p) ==
    IF key_size < 0 THEN SubSeq(KeyPool[p], 1, NumBytes(KeyPool[p], 0))
    ELSE SubSeq(KeyPool[p], 1, key_size)

\* every byte block a key pointer can point at: a caller's buffer or a copy
KeyImages(key_size) ==
    {KeyPool[p] : p \in 1..Len(KeyPool)}
        \cup {KeySpan(key_size, p) : p \in 1..Len(KeyPool)}

\* HashLoop, evaluated once for every key image: <<key_size, bytes, hash>>
HashTable ==
    UNION {{<<key_size, bytes, HashLoop(key_size, bytes)>> :
               bytes \in KeyImages(key_size)} : key_size \in KeySizes}

hash_key(hmap, mem, key) ==
    LET bytes == Bytes(mem, key)
    IN (CHOOSE t \in HashTable : t[1] = hmap.key_size /\ t[2] = bytes)[3]

\* copy_key: a fresh heap block holding the key's bytes.  Returns the new
\* memory and the block's address.
copy_key(hmap, mem, key) ==
    LET src == Bytes(mem, key)
        n == IF hmap.key_size < 0 THEN NumBytes(src, 0) ELSE hmap.key_size
        copied == malloc(mem, Home(key))
    IN [mem |-> [mem EXCEPT !.live = (copied :> SubSeq(src, 1, n)) @@ mem.live],
        key |-> copied]

RECURSIVE EqTerminated(_, _, _)
EqTerminated(k, o, i) ==
    IF k[i + 1] # o[i + 1] THEN FALSE
    ELSE IF k[i + 1] = 0 THEN TRUE
    ELSE EqTerminated(k, o, i + 1)

RECURSIVE EqFixed(_, _, _, _)
EqFixed(k, o, i, n) ==
    IF i >= n THEN TRUE
    ELSE IF k[i + 1] # o[i + 1] THEN FALSE
    ELSE EqFixed(k, o, i + 1, n)

key_equals(hmap, mem, key, other) ==
    IF hmap.key_size < 0
    THEN EqTerminated(Bytes(mem, key), Bytes(mem, other), 0)
    ELSE EqFixed(Bytes(mem, key), Bytes(mem, other), 0, hmap.key_size)

\* ------------------------------------------------------------------- table
\* Operators bind intermediate results as parameters: TLC evaluates a
\* parameter once, where it would expand a LET at every use.

\* calloc'ed hashbucket_t
EmptyBucket ==
    [filled |-> FALSE, desired_idx |-> 0, hash |-> ZeroHash,
     key |-> NULL, value |-> NULL]

EmptyBuckets(n) == [i \in 0..(n - 1) |-> EmptyBucket]

MAX(a, b) == IF a > b THEN a ELSE b

\* faulty variant of HashmapOf: the floor is MIN_HASHMAP_SIZE whatever
\* the initial size
HashmapOf_FloorEight(min_size, key_size, copy_keys) ==
    [key_size |-> key_size, copy_keys |-> copy_keys, size |-> 0,
     min_size |-> MIN_HASHMAP_SIZE, alloc_size |-> min_size,
     buckets |-> EmptyBuckets(min_size)]

HashmapOf(min_size, key_size, copy_keys) ==
    [key_size |-> key_size, copy_keys |-> copy_keys, size |-> 0,
     min_size |-> min_size, alloc_size |-> min_size,
     buckets |-> EmptyBuckets(min_size)]

hashmap_create(initial_size, key_size, copy_keys) ==
    HashmapOf(MAX(initial_size, MIN_HASHMAP_SIZE), key_size, copy_keys)

hashmap_size(hmap) == hmap.size

\* the probe loop of get_bucket_index, from slot index
RECURSIVE Probe(_, _, _, _, _)
Probe(hmap, mem, key, hash, index) ==
    IF ~hmap.buckets[index].filled THEN index
    ELSE IF hmap.buckets[index].hash = hash
            /\ key_equals(hmap, mem, key, hmap.buckets[index].key)
    THEN index
    ELSE Probe(hmap, mem, key, hash, (index + 1) % hmap.alloc_size)

get_bucket_index(hmap, mem, key, hash) ==
    Probe(hmap, mem, key, hash, HashMod(hash, hmap.alloc_size))

\* faulty variant of SetLowerAt: counts an update as a new entry
SetLowerAt_CountsUpdate(hmap, mem, key, value, hash, index) ==
    [hmap |-> [hmap EXCEPT
                 !.buckets[index] =
                     [filled |-> TRUE,
                      hash |-> IF @.filled THEN @.hash ELSE hash,
                      key |-> key, value |-> value,
                      desired_idx |-> HashMod(IF @.filled THEN @.hash ELSE hash,
                                              hmap.alloc_size)],
                 !.size = @ + 1],
     mem |-> IF hmap.buckets[index].filled /\ hmap.copy_keys
             THEN free(mem, hmap.buckets[index].key) ELSE mem,
     ret |-> IF hmap.buckets[index].filled
             THEN hmap.buckets[index].value ELSE NULL]

\* faulty variant of SetLowerAt: desired_idx is the slot the entry lands in
SetLowerAt_DesiredIsIndex(hmap, mem, key, value, hash, index) ==
    [hmap |-> [hmap EXCEPT
                 !.buckets[index] =
                     [filled |-> TRUE,
                      hash |-> IF @.filled THEN @.hash ELSE hash,
                      key |-> key, value |-> value,
                      desired_idx |-> index],
                 !.size = IF hmap.buckets[index].filled THEN @ ELSE @ + 1],
     mem |-> IF hmap.buckets[index].filled /\ hmap.copy_keys
             THEN free(mem, hmap.buckets[index].key) ELSE mem,
     ret |-> IF hmap.buckets[index].filled
             THEN hmap.buckets[index].value ELSE NULL]

\* hashmap_set_lower once index is known
SetLowerAt(hmap, mem, key, value, hash, index) ==
    IF hmap.buckets[index].filled
    THEN [hmap |-> [hmap EXCEPT !.buckets[index] =
                      [@ EXCEPT !.key = key, !.value = value,
                                !.desired_idx = HashMod(hmap.buckets[index].hash,
                                                        hmap.alloc_size)]],
          mem |-> IF hmap.copy_keys
                  THEN free(mem, hmap.buckets[index].key) ELSE mem,
          ret |-> hmap.buckets[index].value]
    ELSE [hmap |-> [hmap EXCEPT
                      !.buckets[index] =
                          [filled |-> TRUE, hash |-> hash, key |-> key,
                           value |-> value,
                           desired_idx |-> HashMod(hash, hmap.alloc_size)],
                      !.size = @ + 1],
          mem |-> mem,
          ret |-> NULL]

\* faulty variant of hashmap_set_lower: returns the new value
hashmap_set_lower_ReturnsNew(hmap, mem, key, value, hash) ==
    [SetLowerAt(hmap, mem, key, value, hash,
                get_bucket_index(hmap, mem, key, hash)) EXCEPT !.ret = value]

\* Returns the table, the memory and the old value (NULL if none).
hashmap_set_lower(hmap, mem, key, value, hash) ==
    SetLowerAt(hmap, mem, key, value, hash,
               get_bucket_index(hmap, mem, key, hash))

\* faulty variant of Reinsert: the loop stops one slot early
RECURSIVE Reinsert_StopsEarly(_, _, _, _)
Reinsert_StopsEarly(t, old_buckets, i, old_size) ==
    IF i + 1 >= old_size THEN t
    ELSE IF old_buckets[i].filled
    THEN Reinsert_StopsEarly(
             SetLowerAt(t.hmap, t.mem, old_buckets[i].key, old_buckets[i].value,
                        old_buckets[i].hash,
                        get_bucket_index(t.hmap, t.mem, old_buckets[i].key,
                                         old_buckets[i].hash)),
             old_buckets, i + 1, old_size)
    ELSE Reinsert_StopsEarly(t, old_buckets, i + 1, old_size)

\* the reinsertion loop of rehash over old_buckets[i .. old_size - 1];
\* t holds the table and the memory so far
RECURSIVE Reinsert(_, _, _, _)
Reinsert(t, old_buckets, i, old_size) ==
    IF i >= old_size THEN t
    ELSE IF old_buckets[i].filled
    THEN Reinsert(hashmap_set_lower(t.hmap, t.mem, old_buckets[i].key,
                                    old_buckets[i].value, old_buckets[i].hash),
                  old_buckets, i + 1, old_size)
    ELSE Reinsert(t, old_buckets, i + 1, old_size)

Rebuilt(t) == [hmap |-> t.hmap, mem |-> t.mem, done |-> TRUE]

\* faulty variant of rehash: no floor at min_size
rehash_NoFloor(hmap, mem, new_size) ==
    Rebuilt(Reinsert(
        [hmap |-> [hmap EXCEPT !.size = 0, !.alloc_size = new_size,
                               !.buckets = EmptyBuckets(new_size)],
         mem |-> mem, ret |-> NULL],
        hmap.buckets, 0, hmap.alloc_size))

\* Returns the table, the memory and whether the table was rebuilt.
rehash(hmap, mem, new_size) ==
    IF new_size < hmap.min_size
    THEN [hmap |-> hmap, mem |-> mem, done |-> FALSE]
    ELSE Rebuilt(Reinsert(
             [hmap |-> [hmap EXCEPT !.size = 0, !.alloc_size = new_size,
                                    !.buckets = EmptyBuckets(new_size)],
              mem |-> mem, ret |-> NULL],
             hmap.buckets, 0, hmap.alloc_size))

ValueAt(hmap, index) ==
    IF hmap.buckets[index].filled THEN hmap.buckets[index].value ELSE NULL

\* faulty variant of hashmap_get: reads the desired slot without probing
hashmap_get_NoProbe(hmap, mem, key) ==
    ValueAt(hmap, HashMod(hash_key(hmap, mem, key), hmap.alloc_size))

hashmap_get(hmap, mem, key) ==
    ValueAt(hmap, get_bucket_index(hmap, mem, key, hash_key(hmap, mem, key)))

\* faulty variant of MayGetAt: a stored NULL counts as absent
MayGetAt_NullIsAbsent(hmap, index, out_value, cell) ==
    IF hmap.buckets[index].filled /\ hmap.buckets[index].value # NULL
    THEN [ret |-> TRUE,
          cell |-> IF out_value # NULL THEN hmap.buckets[index].value ELSE cell]
    ELSE [ret |-> FALSE, cell |-> cell]

\* out_value: NULL, or the address of a cell of the caller; cell: the
\* cell's content before the call.  Returns the flag and the cell after.
MayGetAt(hmap, index, out_value, cell) ==
    IF hmap.buckets[index].filled
    THEN [ret |-> TRUE,
          cell |-> IF out_value # NULL THEN hmap.buckets[index].value ELSE cell]
    ELSE [ret |-> FALSE, cell |-> cell]

hashmap_may_get(hmap, mem, key, out_value, cell) ==
    MayGetAt(hmap, get_bucket_index(hmap, mem, key, hash_key(hmap, mem, key)),
             out_value, cell)

hashmap_has(hmap, mem, key) ==
    hmap.buckets[get_bucket_index(hmap, mem, key, hash_key(hmap, mem, key))].filled

\* faulty variant of GrowIfNeeded: grows one entry later
GrowIfNeeded_Late(hmap, mem) ==
    IF hmap.size > hmap.alloc_size \div 2
    THEN rehash(hmap, mem, hmap.alloc_size * 2)
    ELSE [hmap |-> hmap, mem |-> mem, done |-> FALSE]

\* faulty variant of GrowIfNeeded: grows only when every slot is taken
GrowIfNeeded_WhenFull(hmap, mem) ==
    IF hmap.size >= hmap.alloc_size
    THEN rehash(hmap, mem, hmap.alloc_size * 2)
    ELSE [hmap |-> hmap, mem |-> mem, done |-> FALSE]

\* the growth check of hashmap_set
GrowIfNeeded(hmap, mem) ==
    IF hmap.size >= hmap.alloc_size \div 2
    THEN rehash(hmap, mem, hmap.alloc_size * 2)
    ELSE [hmap |-> hmap, mem |-> mem, done |-> FALSE]

\* g: the table and memory after the growth check; r: after the insertion
SetResult(g, r) ==
    [hmap |-> r.hmap, mem |-> r.mem, ret |-> r.ret,
     rh |-> g.done, rh_hmap |-> g.hmap, rh_mem |-> g.mem]

\* c: the memory and the key pointer after the copy_key of hashmap_set
SetCopied(g, c, value) ==
    SetResult(g, hashmap_set_lower(g.hmap, c.mem, c.key, value,
                                   hash_key(g.hmap, c.mem, c.key)))

SetGrown(g, key, value) ==
    SetCopied(g,
              IF g.hmap.copy_keys THEN copy_key(g.hmap, g.mem, key)
              ELSE [mem |-> g.mem, key |-> key],
              value)

\* Returns the table, the memory, the old value, whether the growth check
\* rebuilt the table (rh), and the table and memory right after that check.
hashmap_set(hmap, mem, key, value) ==
    SetGrown(GrowIfNeeded(hmap, mem), key, value)

\* faulty variant of FilterUp: forgets the probe chains that wrap around
FilterUp_NoWrap(desired, index, last_index) ==
    desired <= last_index /\ last_index < index

\* whether the compaction walk of hashmap_remove moves slot index back
\* into the vacancy last_index
FilterUp(desired, index, last_index) ==
    IF desired < index
    THEN last_index < index /\ desired <= last_index
    ELSE IF desired > index
    THEN last_index < index \/ desired <= last_index
    ELSE FALSE

\* the while (1) loop of hashmap_remove once index is incremented;
\* returns the buckets and last_index
RECURSIVE CompactAt(_, _, _, _)
CompactAt(buckets, alloc_size, index, last_index) ==
    IF ~buckets[index].filled
    THEN [buckets |-> buckets, last_index |-> last_index]
    ELSE IF FilterUp(buckets[index].desired_idx, index, last_index)
    THEN CompactAt([buckets EXCEPT ![last_index] = buckets[index]],
                   alloc_size, (index + 1) % alloc_size, index)
    ELSE CompactAt(buckets, alloc_size, (index + 1) % alloc_size, last_index)

Compact(buckets, alloc_size, index, last_index) ==
    CompactAt(buckets, alloc_size, (index + 1) % alloc_size, last_index)

\* faulty variant of ShrinkIfNeeded: shrinks at a quarter, not below it
ShrinkIfNeeded_AtQuarter(hmap, mem) ==
    IF hmap.size <= hmap.alloc_size \div 4
    THEN rehash(hmap, mem, hmap.alloc_size \div 2)
    ELSE [hmap |-> hmap, mem |-> mem, done |-> FALSE]

\* the shrink check of hashmap_remove, after --hmap->size
ShrinkIfNeeded(hmap, mem) ==
    IF hmap.size < hmap.alloc_size \div 4
    THEN rehash(hmap, mem, hmap.alloc_size \div 2)
    ELSE [hmap |-> hmap, mem |-> mem, done |-> FALSE]

\* buckets[last_index].filled = false.  The C leaves the slot's other fields
\* as they were.  The stale key pointer is kept, hashmap_destroy reads it;
\* value, hash and desired_idx are read nowhere while filled is false and
\* are overwritten when the slot is filled again, and the model zeroes them.
Vacated(bucket) == [EmptyBucket EXCEPT !.key = bucket.key]

\* h1, mem1: the table and memory before the shrink check; s: after it
RemoveResult(value, h1, mem1, s) ==
    [hmap |-> s.hmap, mem |-> s.mem, ret |-> value, found |-> TRUE,
     rh |-> s.done, rh_hmap |-> h1, rh_mem |-> mem1]

RemoveShrink(value, h1, mem1) ==
    RemoveResult(value, h1, mem1, ShrinkIfNeeded(h1, mem1))

\* c: the buckets and last_index the compaction walk ended with
RemoveCompacted(hmap, value, mem1, c) ==
    RemoveShrink(value,
                 [hmap EXCEPT
                     !.buckets = [c.buckets EXCEPT
                                     ![c.last_index] = Vacated(@)],
                     !.size = @ - 1],
                 mem1)

\* faulty variant of RemoveAt: counts down and checks for a shrink also
\* when the key is not found
RemoveAt_CountsAbsent(hmap, mem, index) ==
    IF hmap.buckets[index].filled
    THEN RemoveCompacted(hmap, hmap.buckets[index].value,
                         IF hmap.copy_keys
                         THEN free(mem, hmap.buckets[index].key) ELSE mem,
                         Compact(hmap.buckets, hmap.alloc_size, index, index))
    ELSE [RemoveShrink(NULL, [hmap EXCEPT !.size = @ - 1], mem)
             EXCEPT !.found = FALSE]

RemoveAt(hmap, mem, index) ==
    IF hmap.buckets[index].filled
    THEN RemoveCompacted(hmap, hmap.buckets[index].value,
                         IF hmap.copy_keys
                         THEN free(mem, hmap.buckets[index].key) ELSE mem,
                         Compact(hmap.buckets, hmap.alloc_size, index, index))
    ELSE [hmap |-> hmap, mem |-> mem, ret |-> NULL, found |-> FALSE,
          rh |-> FALSE, rh_hmap |-> hmap, rh_mem |-> mem]

\* Returns the table, the memory, the removed value (NULL if none), whether
\* the key was found, whether the shrink check rebuilt the table (rh), and
\* the table and memory right before that check.
hashmap_remove(hmap, mem, key) ==
    RemoveAt(hmap, mem,
             get_bucket_index(hmap, mem, key, hash_key(hmap, mem, key)))

\* free(value) of every filled slot, slots i .. alloc_size - 1
RECURSIVE DestroyValues(_, _, _)
DestroyValues(hmap, mem, i) ==
    IF i >= hmap.alloc_size THEN mem
    ELSE IF hmap.buckets[i].filled /\ hmap.buckets[i].value # NULL
    THEN DestroyValues(hmap,
             [mem EXCEPT !.vfreed = @ \cup {hmap.buckets[i].value}], i + 1)
    ELSE DestroyValues(hmap, mem, i + 1)

\* free(key) of every slot whose key pointer is not NULL
RECURSIVE DestroyKeys(_, _, _)
DestroyKeys(hmap, mem, i) ==
    IF i >= hmap.alloc_size THEN mem
    ELSE IF hmap.buckets[i].key # NULL
    THEN DestroyKeys(hmap, free(mem, hmap.buckets[i].key), i + 1)
    ELSE DestroyKeys(hmap, mem, i + 1)

DestroyKeysIf(hmap, mem) ==
    IF hmap.copy_keys THEN DestroyKeys(hmap, mem, 0) ELSE mem

\* Returns the memory after teardown.
hashmap_destroy(hmap, mem, destroy_values) ==
    DestroyKeysIf(hmap,
                  IF destroy_values THEN DestroyValues(hmap, mem, 0) ELSE mem)

\* ---------------------------------------------------------------- iterator
\* struct ghh_hmapiter; iter->hmap is the one table of the model
hmapiter_create(hmap) == [idx |-> -1]

hmapiter_reset(iter) == [iter EXCEPT !.idx = -1]

\* faulty variant of Advance: the loop gives up one slot before the end
RECURSIVE Advance_StopsEarly(_, _)
Advance_StopsEarly(hmap, idx) ==
    IF idx + 1 >= hmap.alloc_size - 1 THEN -1
    ELSE IF hmap.buckets[idx + 1].filled THEN idx + 1
    ELSE Advance_StopsEarly(hmap, idx + 1)

\* the do/while of hmapiter_next from position idx: the first filled slot
\* after idx, or -1 when ++idx reaches alloc_size
RECURSIVE Advance(_, _)
Advance(hmap, idx) ==
    IF idx + 1 >= hmap.alloc_size THEN -1
    ELSE IF hmap.buckets[idx + 1].filled THEN idx + 1
    ELSE Advance(hmap, idx + 1)

\* *out = v when the pointer out is not NULL; cell is the pointee before
Store(out, cell, v) == IF out # NULL THEN v ELSE cell

\* faulty variant of NextAt: an exhausted iterator stays past the end
NextAt_StaysAtEnd(hmap, idx, out_key, out_value, out) ==
    IF idx < 0
    THEN [iter |-> [idx |-> hmap.alloc_size], ret |-> FALSE,
          out |-> [key |-> Store(out_key, out.key, NULL),
                   value |-> Store(out_value, out.value, NULL)]]
    ELSE [iter |-> [idx |-> idx], ret |-> TRUE,
          out |-> [key |-> Store(out_key, out.key, hmap.buckets[idx].key),
                   value |-> Store(out_value, out.value,
                                   hmap.buckets[idx].value)]]

\* the rest of hmapiter_next once the loop has ended with idx
NextAt(hmap, idx, out_key, out_value, out) ==
    IF idx < 0
    THEN [iter |-> [idx |-> -1], ret |-> FALSE,
          out |-> [key |-> Store(out_key, out.key, NULL),
                   value |-> Store(out_value, out.value, NULL)]]
    ELSE [iter |-> [idx |-> idx], ret |-> TRUE,
          out |-> [key |-> Store(out_key, out.key, hmap.buckets[idx].key),
                   value |-> Store(out_value, out.value,
                                   hmap.buckets[idx].value)]]

\* out_key, out_value: NULL or the addresses of the caller's two cells;
\* out: the cells before the call.  Returns the iterator, the flag and the
\* cells after it.
hmapiter_next(hmap, iter, out_key, out_value, out) ==
    NextAt(hmap, Advance(hmap, iter.idx), out_key, out_value, out)

\* ------------------------------------------------------------ state machine
VARIABLES
    hmap,     \* struct ghh_hashmap; NULL once destroyed
    mem,      \* the heap of key copies
    alive,    \* FALSE once hashmap_destroy has run
    shadow,   \* the finite map the calls so far describe: key bytes -> value
    iter,     \* struct ghh_hmapiter
    last,     \* the last lookup or iterator call, what it returned, and the
              \* caller's cells that out_key and out_value point at
    pass      \* the slots the iterator yielded since it last left the
              \* not-started state, and whether the table is untouched since

vars == <<hmap, mem, alive, shadow, iter, last, pass>>

\* what the caller's cells hold before a call: not NULL, no key, no value
Unwritten == Spare + 1
Cells == [key |-> Unwritten, value |-> Unwritten]

Called(op, ret, out) ==
    [op |-> op, ret |-> ret, key |-> out.key, value |-> out.value]

NoCall == Called("none", NULL, Cells)
NewPass == [slots |-> <<>>, clean |-> TRUE]

\* the (key pointer, value pointer, hash) triples stored in a table
Triples(h) ==
    {<<h.buckets[i].key, h.buckets[i].value, h.buckets[i].hash>> :
        i \in {j \in 0..(h.alloc_size - 1) : h.buckets[j].filled}}

\* After an update under copy_keys the new copy lives at Spare and the old
\* block at Home(key) is free again: the new block is renamed to Home(key).
Rehome(r, key) ==
    IF Spare \notin DOMAIN r.mem.live THEN r
    ELSE [r EXCEPT
            !.hmap.buckets =
                [i \in DOMAIN @ |->
                    IF @[i].key = Spare THEN [@[i] EXCEPT !.key = Home(key)]
                    ELSE @[i]],
            !.mem.live =
                [a \in (DOMAIN @ \ {Spare}) \cup {Home(key)} |->
                    IF a = Home(key) THEN @[Spare] ELSE @[a]]]

\* hashmap_create and hmapiter_create, with arguments from the given sets
Created(hints, key_sizes, copy_modes) ==
    \E initial_size \in hints, key_size \in key_sizes, copy_keys \in copy_modes :
        /\ hmap = hashmap_create(initial_size, key_size, copy_keys)
        /\ mem = EmptyMem
        /\ alive = TRUE
        /\ shadow = [x \in {} |-> NULL]
        /\ iter = hmapiter_create(hmap)
        /\ last = NoCall
        /\ pass = NewPass

Init == Created(SizeHints, KeySizes, BOOLEAN)

\* the table and memory become those of the call's result r
Returned(r) ==
    /\ hmap' = r.hmap
    /\ mem' = r.mem

\* a call that can change the table: a pass under way is clean no more
\* when the table did change
Mutated ==
    /\ pass' = IF hmap' = hmap THEN pass
               ELSE [slots |-> <<>>, clean |-> iter.idx = -1]
    /\ last' = NoCall
    /\ UNCHANGED <<alive, iter>>

Set(key, value) ==
    /\ alive
    /\ Returned(Rehome(hashmap_set(hmap, mem, key, value), key))
    /\ shadow' = (KeySpan(hmap.key_size, key) :> value) @@ shadow
    /\ Mutated

Remove(key) ==
    /\ alive
    /\ Returned(hashmap_remove(hmap, mem, key))
    /\ shadow' = Restrict(shadow, DOMAIN shadow \ {KeySpan(hmap.key_size, key)})
    /\ Mutated

\* free(hmap): the table is gone
Destroy(destroy_values) ==
    /\ alive
    /\ alive' = FALSE
    /\ mem' = hashmap_destroy(hmap, mem, destroy_values)
    /\ hmap' = NULL
    /\ shadow' = [x \in {} |-> NULL]
    /\ UNCHANGED <<iter, last, pass>>

\* r: the result of hmapiter_next.  A call made in the not-started state
\* begins a pass; a slot yielded in a clean pass is noted.
Noted(base, r) ==
    IF r.ret /\ base.clean
    THEN [base EXCEPT !.slots = Append(@, r.iter.idx)] ELSE base

IterReturned(r) ==
    /\ iter' = r.iter
    /\ last' = Called("next", r.ret, r.out)
    /\ pass' = Noted(IF iter.idx = -1 THEN NewPass ELSE pass, r)

\* faulty variant of IterNext: after a pass the iterator yields nothing
\* until it is reset
IterNext_NoRestart(out_key, out_value) ==
    /\ alive
    /\ IterReturned(IF iter.idx = -1 /\ pass.slots # <<>>
                    THEN NextAt(hmap, -1, out_key, out_value, Cells)
                    ELSE hmapiter_next(hmap, iter, out_key, out_value, Cells))
    /\ UNCHANGED <<hmap, mem, alive, shadow>>

IterNext(out_key, out_value) ==
    /\ alive
    /\ IterReturned(hmapiter_next(hmap, iter, out_key, out_value, Cells))
    /\ UNCHANGED <<hmap, mem, alive, shadow>>

IterReset ==
    /\ alive
    /\ iter' = hmapiter_reset(iter)
    /\ last' = Called("reset", NULL, Cells)
    /\ pass' = NewPass
    /\ UNCHANGED <<hmap, mem, alive, shadow>>

\* faulty variant of Get: a lookup that stores NULL for a key it misses
Get_Inserting(key) ==
    /\ alive
    /\ last' = Called("get", hashmap_get(hmap, mem, key), Cells)
    /\ Returned(hashmap_set(hmap, mem, key, hashmap_get(hmap, mem, key)))
    /\ UNCHANGED <<alive, shadow, iter, pass>>

Get(key) ==
    /\ alive
    /\ last' = Called("get", hashmap_get(hmap, mem, key), Cells)
    /\ UNCHANGED <<hmap, mem, alive, shadow, iter, pass>>

MayGetReturned(r) ==
    last' = Called("may_get", r.ret, [Cells EXCEPT !.value = r.cell])

MayGet(key, out_value) ==
    /\ alive
    /\ MayGetReturned(hashmap_may_get(hmap, mem, key, out_value, Cells.value))
    /\ UNCHANGED <<hmap, mem, alive, shadow, iter, pass>>

Has(key) ==
    /\ alive
    /\ last' = Called("has", hashmap_has(hmap, mem, key), Cells)
    /\ UNCHANGED <<hmap, mem, alive, shadow, iter, pass>>

Size ==
    /\ alive
    /\ last' = Called("size", hashmap_size(hmap), Cells)
    /\ UNCHANGED <<hmap, mem, alive, shadow, iter, pass>>

Next ==
    \/ \E key \in CallerKeys, value \in Values : Set(key, value)
    \/ \E key \in CallerKeys : Remove(key)
    \/ \E destroy_values \in BOOLEAN : Destroy(destroy_values)

Spec == Init /\ [][Next]_vars

\* The table with an iterator and lookups at work: one table shape, and
\* keys of the slots 7, 7, 5 and 0 of an 8 slot array.
IterKeys == {1, 2, 3, 5}
\* NULL, or the address of the caller's cell
OutPointers == {NULL, 1}

InitIter == Created({MIN_HASHMAP_SIZE - 1}, {-1}, {FALSE})

NextIter ==
    \/ \E key \in IterKeys, value \in Values : Set(key, value)
    \/ \E key \in IterKeys : Remove(key)
    \/ \E out_key, out_value \in OutPointers : IterNext(out_key, out_value)
    \/ IterReset
    \/ \E key \in IterKeys : Get(key)
    \/ \E key \in IterKeys, out_value \in OutPointers : MayGet(key, out_value)
    \/ \E key \in IterKeys : Has(key)
    \/ Size

SpecIter == InitIter /\ [][NextIter]_vars

\* hash_key and key_equals on their own: a table of every key mode and
\* two key blocks A and B on the heap, every pair of three byte blocks
\* with a zero in the second or the third byte.
HashByte == {0, 1, 255}
HashBlocks == {b \in [1..3 -> HashByte] : b[2] = 0 \/ b[3] = 0}
HashKeySizes == {-1, 1, 2, 3}
KeyA == Home(1)
KeyB == Home(2)

InitHash ==
    \E key_size \in HashKeySizes, a, b \in HashBlocks :
        /\ hmap = hashmap_create(MIN_HASHMAP_SIZE, key_size, FALSE)
        /\ mem = [EmptyMem EXCEPT !.live = (KeyA :> a) @@ (KeyB :> b)]
        /\ alive = TRUE
        /\ shadow = [x \in {} |-> NULL]
        /\ iter = hmapiter_create(hmap)
        /\ last = NoCall
        /\ pass = NewPass

\* last.key is the key hashed
HashKey(key) ==
    /\ last' = Called("hash_key", HashLoop(hmap.key_size, Bytes(mem, key)),
                      [Cells EXCEPT !.key = key])
    /\ UNCHANGED <<hmap, mem, alive, shadow, iter, pass>>

\* the call in the 32 bit build
HashKey32(key) ==
    /\ last' = Called("hash_key_32", HashLoop32(hmap.key_size, Bytes(mem, key)),
                      [Cells EXCEPT !.key = key])
    /\ UNCHANGED <<hmap, mem, alive, shadow, iter, pass>>

KeyEquals ==
    /\ last' = Called("key_equals", key_equals(hmap, mem, KeyA, KeyB), Cells)
    /\ UNCHANGED <<hmap, mem, alive, shadow, iter, pass>>

NextHash ==
    \/ \E key \in {KeyA, KeyB} : HashKey(key)
    \/ \E key \in {KeyA, KeyB} : HashKey32(key)
    \/ KeyEquals

SpecHash == InitHash /\ [][NextHash]_vars

\* ------------------------------------------------------------------ claims
\* whether the calls so far leave the caller's key stored, and its value
Present(key) == KeySpan(hmap.key_size, key) \in DOMAIN shadow
Expected(key) ==
    IF Present(key) THEN shadow[KeySpan(hmap.key_size, key)] ELSE NULL

Slots(h) == 0..(h.alloc_size - 1)
Filled(h) == {i \in Slots(h) : h.buckets[i].filled}

\* the slots a linear probe visits going from slot a to slot b, b included
Walk(h, a, b) ==
    IF a <= b THEN a..b ELSE (a..(h.alloc_size - 1)) \cup (0..b)

\* C1: the table is the finite map described by the calls so far: for every
\* key, hashmap_get returns the value of the most recent hashmap_set of it,
\* or NULL when it was never set or removed since, and hashmap_has tells
\* which; across growth and shrink.
C1_FiniteMap ==
    alive =>
        \A key \in CallerKeys :
            /\ hashmap_get(hmap, mem, key) = Expected(key)
            /\ hashmap_has(hmap, mem, key) = Present(key)

\* a grown table from which a key was removed: one key reads back as the
\* non-NULL value set for it, another one as absent
C1_Witness ==
    /\ alive
    /\ hmap.alloc_size = 2 * hmap.min_size
    /\ hmap.size = 4
    /\ \E k1, k2 \in CallerKeys :
          /\ Present(k1) /\ Expected(k1) = 1 /\ hashmap_get(hmap, mem, k1) = 1
          /\ ~Present(k2) /\ ~hashmap_has(hmap, mem, k2)

\* C2: hashmap_size is the number of distinct keys set and not removed
\* since, and the number of filled slots.
C2_SizeCounts ==
    alive =>
        /\ hashmap_size(hmap) = Cardinality(DOMAIN shadow)
        /\ hashmap_size(hmap) = Cardinality(Filled(hmap))

\* a table that has grown and lost a key since
C2_Witness ==
    /\ alive
    /\ hmap.alloc_size = 2 * hmap.min_size
    /\ hashmap_size(hmap) = 4
    /\ \E i \in Slots(hmap) : ~hmap.buckets[i].filled /\ hmap.buckets[i].key # NULL

\* C3: every filled slot is reached by the probe from its desired index
\* without passing an empty slot, and the probe for its key ends at it.
C3_ProbeChains ==
    alive =>
        \A i \in Filled(hmap) :
            /\ Walk(hmap, hmap.buckets[i].desired_idx, i) \subseteq Filled(hmap)
            /\ get_bucket_index(hmap, mem, hmap.buckets[i].key,
                                hmap.buckets[i].hash) = i

\* a removal moves the entry of slot 0 back across the end of the array,
\* in a chain that holds entries with another desired index
C3_Witness ==
    /\ alive
    /\ \E key \in CallerKeys :
          /\ hashmap_remove(hmap, mem, key).found
          /\ ~hashmap_remove(hmap, mem, key).rh
          /\ hmap.buckets[0].filled
          /\ hmap.buckets[1].filled
          /\ hmap.buckets[1].desired_idx # hmap.buckets[0].desired_idx
          /\ hashmap_remove(hmap, mem, key).hmap.buckets[hmap.alloc_size - 1]
                = hmap.buckets[0]
          /\ hmap.buckets[hmap.alloc_size - 1] # hmap.buckets[0]

\* C4: under copy_keys no key pointer is given to free() twice, and after
\* hashmap_destroy no key copy is left allocated.
C4_KeysFreedOnce ==
    /\ ~mem.double_free
    /\ ~alive => DOMAIN mem.live = {}

\* a step of hashmap_set: no key leaves the map and the table lives on
\* (a hashmap_remove of an absent key changes nothing at all)
SetStep == alive' /\ DOMAIN shadow \subseteq DOMAIN shadow'

\* a step of hashmap_remove that removed a key
RemoveStep == alive' /\ DOMAIN shadow' # DOMAIN shadow /\ DOMAIN shadow' \subseteq DOMAIN shadow

\* C5 as stated: an insertion that brings the entry count to half of the
\* capacity or more is preceded by a doubling of the capacity.
C5_GrowsBeforeHalf ==
    [][(SetStep /\ hmap'.size = hmap.size + 1
            /\ 2 * (hmap.size + 1) >= hmap.alloc_size)
        => hmap'.alloc_size = 2 * hmap.alloc_size]_vars

\* C5, amended: hashmap_set doubles the capacity exactly when the entry
\* count before the call is already floor(alloc_size / 2) or more, for an
\* insertion and for an update alike; otherwise it leaves the capacity.
C5_GrowsAtHalf ==
    [][SetStep =>
        hmap'.alloc_size = IF hmap.size >= hmap.alloc_size \div 2
                           THEN 2 * hmap.alloc_size ELSE hmap.alloc_size]_vars

\* a floor 8 table that has doubled to 16: it holds 5 entries
C5_Witness ==
    /\ alive
    /\ hmap.min_size = MIN_HASHMAP_SIZE
    /\ hmap.alloc_size = 2 * MIN_HASHMAP_SIZE
    /\ hmap.size = 5

\* a rehash from table h0 and memory m0 to h1 and m1 keeps the entries, the
\* count and the heap, and every key reads back as before
SameEntries(h0, m0, h1, m1) ==
    /\ Triples(h1) = Triples(h0)
    /\ h1.size = h0.size
    /\ m1 = m0
    /\ \A key \in CallerKeys :
          hashmap_get(h1, m1, key) = hashmap_get(h0, m0, key)

\* g: the result of the growth check of a hashmap_set made from table h0
\* and memory m0; the check does not depend on the key or the value
GrowthKeeps(h0, m0, g) ==
    g.done => /\ SameEntries(h0, m0, g.hmap, g.mem)
              /\ g.hmap.alloc_size # h0.alloc_size

\* r: the result of a hashmap_remove
ShrinkKeeps(r) ==
    r.rh => /\ SameEntries(r.rh_hmap, r.rh_mem, r.hmap, r.mem)
            /\ r.hmap.alloc_size # r.rh_hmap.alloc_size

\* C6: the rehash a hashmap_set or a hashmap_remove would run from here
\* changes the capacity and the placement only: the same (key pointer,
\* value pointer, hash) triples, the same count, no key block allocated
\* or freed, every key read back with the same value.
C6_RehashFrame ==
    alive =>
        /\ GrowthKeeps(hmap, mem, GrowIfNeeded(hmap, mem))
        /\ \A key \in CallerKeys :
              ShrinkKeeps(hashmap_remove(hmap, mem, key))

\* the placement any reinsertion gives slot i's entry
Moved(h0, h1) ==
    \E i \in Filled(h0) : h1.buckets[i] # h0.buckets[i]

\* under copy_keys a hashmap_set is about to grow the table and to move
\* entries to other slots
C6_Witness ==
    /\ alive
    /\ hmap.copy_keys
    /\ hmap.size > 0
    /\ \E key \in CallerKeys :
          /\ hashmap_set(hmap, mem, key, NULL).rh
          /\ Moved(hmap, hashmap_set(hmap, mem, key, NULL).rh_hmap)

\* C7 as stated: a removal that leaves fewer entries than a quarter of the
\* capacity halves the capacity, unless the half is below min_size.
C7_ShrinksBelowQuarter ==
    [][(RemoveStep /\ 4 * hmap'.size < hmap.alloc_size)
        => hmap'.alloc_size =
              IF hmap.alloc_size \div 2 < hmap.min_size
              THEN hmap.alloc_size ELSE hmap.alloc_size \div 2]_vars

\* C7, amended: the quarter is floor(alloc_size / 4); the capacity is halved
\* after a removal exactly when the count is below it and the half is not
\* below min_size; and alloc_size >= min_size >= 8 in the state reached.
C7_ShrinksBelowFloorQuarter ==
    [][RemoveStep =>
        /\ hmap'.alloc_size =
              IF hmap'.size < hmap.alloc_size \div 4
                 /\ hmap.alloc_size \div 2 >= hmap.min_size
              THEN hmap.alloc_size \div 2 ELSE hmap.alloc_size
        /\ hmap'.size = hmap.size - 1
        /\ hmap'.alloc_size >= hmap'.min_size
        /\ hmap'.min_size >= MIN_HASHMAP_SIZE]_vars

\* a grown table from which a removal is about to halve the capacity
C7_Witness ==
    /\ alive
    /\ hmap.alloc_size = 2 * hmap.min_size
    /\ \E key \in CallerKeys :
          /\ hashmap_remove(hmap, mem, key).rh
          /\ hashmap_remove(hmap, mem, key).hmap.alloc_size = hmap.min_size

IsPowerOfTwo(n) == \E k \in 0..n : 2 ^ k = n

\* C8 as stated: alloc_size is a power of two, at least min_size, and
\* size <= alloc_size.
C8_PowerOfTwo ==
    alive =>
        /\ IsPowerOfTwo(hmap.alloc_size)
        /\ hmap.alloc_size >= hmap.min_size
        /\ hmap.size <= hmap.alloc_size

\* C8, amended: alloc_size is min_size times a power of two, so a power of
\* two when min_size is one; at least min_size; and size <= alloc_size.
C8_FloorTimesPowerOfTwo ==
    alive =>
        /\ hmap.alloc_size % hmap.min_size = 0
        /\ IsPowerOfTwo(hmap.alloc_size \div hmap.min_size)
        /\ IsPowerOfTwo(hmap.min_size) => IsPowerOfTwo(hmap.alloc_size)
        /\ hmap.alloc_size >= hmap.min_size
        /\ hmap.size <= hmap.alloc_size

\* a table whose floor is no power of two (initial size 9) and that has
\* doubled its capacity (to 18 slots)
C8_Witness ==
    /\ alive
    /\ ~IsPowerOfTwo(hmap.min_size)
    /\ hmap.alloc_size = 2 * hmap.min_size
    /\ hmap.size > 0

\* r: the result of a hashmap_set(key, value) made from the current state
UpdateResult(r, key, value) ==
    /\ r.ret = Expected(key)
    /\ hashmap_get(r.hmap, r.mem, key) = value
    /\ r.hmap.size = IF Present(key) THEN hmap.size ELSE hmap.size + 1

\* C9: a hashmap_set returns the value the key was last set to, NULL for a
\* key that is not present; it leaves the size alone when the key is
\* present, and the key then reads back as the new value.
C9_UpdateReturnsPrevious ==
    alive =>
        \A key \in CallerKeys, value \in Values :
            UpdateResult(hashmap_set(hmap, mem, key, value), key, value)

\* an update that first grows the table and returns the non-NULL old value
C9_Witness ==
    /\ alive
    /\ \E key \in CallerKeys :
          /\ Present(key)
          /\ hashmap_set(hmap, mem, key, NULL).rh
          /\ hashmap_set(hmap, mem, key, NULL).ret = 1

\* r: the result of hashmap_may_get(key, out_value, cell) with out_value
\* the address of a cell holding cell; n: the result with out_value NULL
MayGetAgrees(r, n, key, cell) ==
    /\ r.ret = Present(key)
    /\ r.cell = IF Present(key) THEN Expected(key) ELSE cell
    /\ n.ret = r.ret
    /\ n.cell = cell
    /\ hashmap_has(hmap, mem, key) = r.ret
    /\ (~r.ret \/ r.cell = NULL) => hashmap_get(hmap, mem, key) = NULL

\* C10: hashmap_may_get returns TRUE and writes the value, NULL included,
\* for a stored key, returns FALSE and leaves *out_value as it was for an
\* absent key; hashmap_get returns NULL for an absent key and for a key
\* stored with NULL; hashmap_has returns the flag of hashmap_may_get.
C10_MayGetDisambiguates ==
    alive =>
        \A key \in CallerKeys, cell \in Values :
            MayGetAgrees(hashmap_may_get(hmap, mem, key, 1, cell),
                         hashmap_may_get(hmap, mem, key, NULL, cell),
                         key, cell)

\* two keys of one desired slot, the first stored with NULL and the second
\* absent: hashmap_get returns NULL for both, hashmap_may_get tells them apart
C10_Witness ==
    /\ alive
    /\ \E k1, k2 \in CallerKeys :
          /\ HashMod(hash_key(hmap, mem, k1), hmap.alloc_size)
                = HashMod(hash_key(hmap, mem, k2), hmap.alloc_size)
          /\ Present(k1) /\ Expected(k1) = NULL /\ ~Present(k2)
          /\ hashmap_get(hmap, mem, k1) = NULL
          /\ hashmap_get(hmap, mem, k2) = NULL
          /\ hashmap_may_get(hmap, mem, k1, 1, 1) = [ret |-> TRUE, cell |-> NULL]
          /\ hashmap_may_get(hmap, mem, k2, 1, 1) = [ret |-> FALSE, cell |-> 1]

\* the members of a set of slots, in increasing order
RECURSIVE Ascending(_)
Ascending(S) ==
    IF S = {} THEN <<>>
    ELSE <<CHOOSE i \in S : \A j \in S : i <= j>>
            \o Ascending(S \ {CHOOSE i \in S : \A j \in S : i <= j})

\* the bytes of the key stored in slot i that the table's key mode covers
StoredSpan(h, m, i) ==
    IF h.key_size < 0
    THEN SubSeq(Bytes(m, h.buckets[i].key), 1,
                NumBytes(Bytes(m, h.buckets[i].key), 0))
    ELSE SubSeq(Bytes(m, h.buckets[i].key), 1, h.key_size)

\* slot i holds an entry of the map, the value it was last set to
YieldsEntry(i) ==
    /\ i \in Filled(hmap)
    /\ StoredSpan(hmap, mem, i) \in DOMAIN shadow
    /\ hmap.buckets[i].value = shadow[StoredSpan(hmap, mem, i)]

Range(seq) == {seq[n] : n \in 1..Len(seq)}

\* the pass is over: the last hmapiter_next returned false
PassDone == last.op = "next" /\ ~last.ret

\* C11: while the table is not changed, the slots hmapiter_next has yielded
\* since the pass began are the filled slots up to the iterator's position,
\* in increasing order, each holding an entry of the map; and when
\* hmapiter_next returns false they are all the filled slots: hashmap_size
\* yields, one for each key of the map, none twice.
C11_IteratorExhaustive ==
    (alive /\ pass.clean) =>
        /\ iter.idx >= 0 =>
              pass.slots = Ascending({i \in Filled(hmap) : i <= iter.idx})
        /\ \A n \in 1..Len(pass.slots) : YieldsEntry(pass.slots[n])
        /\ PassDone =>
              /\ pass.slots = Ascending(Filled(hmap))
              /\ Len(pass.slots) = hashmap_size(hmap)
              /\ {StoredSpan(hmap, mem, i) : i \in Range(pass.slots)}
                    = DOMAIN shadow
        /\ (last.op = "next" /\ last.ret) =>
              /\ last.key \in {hmap.buckets[iter.idx].key, Unwritten}
              /\ last.value \in {hmap.buckets[iter.idx].value, Unwritten}

\* a finished pass over a grown table of four entries, slot 0 and the last
\* slot of the first eight among them
C11_Witness ==
    /\ alive
    /\ pass.clean
    /\ PassDone
    /\ hmap.alloc_size = 2 * MIN_HASHMAP_SIZE
    /\ Len(pass.slots) = 4
    /\ {0, MIN_HASHMAP_SIZE - 1} \subseteq Range(pass.slots)

\* a pass that yielded entries has ended with false, and neither a
\* hmapiter_reset nor a change of the table has followed
Exhausted == alive /\ iter.idx = -1 /\ pass.slots # <<>>

\* C12 as stated: once hmapiter_next has returned false, the calls that
\* follow without a hmapiter_reset yield no entry.
C12_NoRestartWithoutReset ==
    [][(Exhausted /\ hmap' = hmap) => iter'.idx = -1]_vars

\* C12, amended: hmapiter_next leaves the iterator in the not-started state
\* when it returns false, as hmapiter_reset does; the next hmapiter_next
\* begins a new pass and yields the first filled slot again.
C12_RestartsAfterExhaustion ==
    [][(Exhausted /\ hmap' = hmap /\ last'.op = "next")
        => /\ iter = hmapiter_create(hmap)
           /\ last'.ret
           /\ iter'.idx = pass.slots[1]
           /\ pass'.slots = <<pass.slots[1]>>]_vars

\* a second pass under way: hmapiter_next has returned false after a pass
\* of three entries, and the call after it is about to yield again
C12_Witness ==
    /\ Exhausted
    /\ PassDone
    /\ Len(pass.slots) = 3
    /\ hmapiter_next(hmap, iter, NULL, NULL, Cells).ret
    /\ hmapiter_next(hmap, iter, NULL, NULL, Cells).iter.idx = pass.slots[1]

LookupOps == {"get", "may_get", "has", "size"}

\* C13: a step of hashmap_get, hashmap_may_get, hashmap_has or hashmap_size
\* leaves the table (the slot array, size, alloc_size, min_size), the key
\* heap and the iterator's position as they were.
C13_LookupKeepsState ==
    [][last'.op \in LookupOps =>
          /\ hmap'.buckets = hmap.buckets
          /\ hmap'.size = hmap.size
          /\ hmap'.alloc_size = hmap.alloc_size
          /\ hmap'.min_size = hmap.min_size
          /\ hmap' = hmap
          /\ mem' = mem
          /\ iter' = iter]_vars

\* hashmap_may_get has just missed a key, in a table of two entries or
\* more with the iterator positioned past slot 0; a present key is
\* looked up from the same state
C13_Witness ==
    /\ alive
    /\ last.op = "may_get"
    /\ ~last.ret
    /\ hmap.size >= 2
    /\ iter.idx > 0
    /\ \E key \in IterKeys : hashmap_has(hmap, mem, key)

\* r: the result of hashmap_remove(key) made from the current state
RemoveOutcome(r, key) ==
    IF Present(key)
    THEN r.found /\ r.ret = Expected(key)
    ELSE /\ ~r.found
         /\ r.ret = NULL
         /\ r.hmap = hmap
         /\ r.mem = mem
         /\ ~r.rh

\* C14: hashmap_remove of a key that is not present returns NULL and
\* leaves the table and the key heap as they were: no slot written, size
\* and alloc_size kept, no rehash, no key freed; hashmap_remove of a
\* present key returns the value stored for it.
C14_RemoveAbsent ==
    alive =>
        \A key \in CallerKeys :
            RemoveOutcome(hashmap_remove(hmap, mem, key), key)

\* a grown table under copy_keys with so few entries that one removal
\* shrinks it, and an absent key whose desired slot is taken by another key
C14_Witness ==
    /\ alive
    /\ hmap.copy_keys
    /\ hmap.alloc_size = 2 * hmap.min_size
    /\ hmap.size = hmap.alloc_size \div 4
    /\ \E key \in CallerKeys :
          /\ ~Present(key)
          /\ hmap.buckets[HashMod(hash_key(hmap, mem, key),
                                  hmap.alloc_size)].filled
          /\ hashmap_remove(hmap, mem, key).ret = NULL

\* C15: the desired_idx of every filled slot is its cached hash modulo the
\* alloc_size of the table as it is now.
C15_DesiredIdx ==
    alive =>
        \A i \in Filled(hmap) :
            hmap.buckets[i].desired_idx
                = HashMod(hmap.buckets[i].hash, hmap.alloc_size)

\* a table rebuilt by a growth, with an entry whose desired slot in the
\* table before the growth was another one
C15_Witness ==
    /\ alive
    /\ hmap.alloc_size = 2 * hmap.min_size
    /\ hmap.size >= 4
    /\ \E i \in Filled(hmap) :
          hmap.buckets[i].desired_idx
              # HashMod(hmap.buckets[i].hash, hmap.min_size)

\* r: the result of hmapiter_next(out_key, out_value) made from the
\* current state, the caller's cells holding Unwritten before the call
NextOutcome(r, out_key, out_value) ==
    IF r.ret
    THEN /\ r.iter.idx \in Filled(hmap)
         /\ r.out.key = IF out_key # NULL
                        THEN hmap.buckets[r.iter.idx].key ELSE Unwritten
         /\ r.out.value = IF out_value # NULL
                          THEN hmap.buckets[r.iter.idx].value ELSE Unwritten
    ELSE /\ r.iter = hmapiter_create(hmap)
         /\ r.iter = hmapiter_reset(iter)
         /\ r.out.key = IF out_key # NULL THEN NULL ELSE Unwritten
         /\ r.out.value = IF out_value # NULL THEN NULL ELSE Unwritten

\* C16: a hmapiter_next that returns false writes NULL to the cells it was
\* given and leaves the iterator in the state of hmapiter_create and
\* hmapiter_reset, idx = -1; one that returns true leaves it at a filled
\* slot, 0 <= idx < alloc_size.  For the call just made and for the one
\* that could be made now.
C16_ExhaustionResets ==
    alive =>
        /\ last.op = "next" =>
              IF last.ret
              THEN iter.idx \in Filled(hmap) /\ iter.idx \in Slots(hmap)
              ELSE /\ iter = hmapiter_create(hmap)
                   /\ last.key \in {NULL, Unwritten}
                   /\ last.value \in {NULL, Unwritten}
        /\ \A out_key, out_value \in OutPointers :
              NextOutcome(hmapiter_next(hmap, iter, out_key, out_value, Cells),
                          out_key, out_value)

\* hmapiter_next has just returned false at the end of a table of two
\* entries or more, given a cell for the key and none for the value
C16_Witness ==
    /\ alive
    /\ PassDone
    /\ hmap.size >= 2
    /\ iter = hmapiter_create(hmap)
    /\ last.key = NULL
    /\ last.value = Unwritten

\* the probe loop of get_bucket_index cut off after fuel slots: the slot it
\* ends at, or -1 when it is still running
RECURSIVE ProbeWithin(_, _, _, _, _, _)
ProbeWithin(h, m, key, hash, index, fuel) ==
    IF fuel = 0 THEN -1
    ELSE IF ~h.buckets[index].filled THEN index
    ELSE IF h.buckets[index].hash = hash
            /\ key_equals(h, m, key, h.buckets[index].key)
    THEN index
    ELSE ProbeWithin(h, m, key, hash, (index + 1) % h.alloc_size, fuel - 1)

\* the probe for a key in table h ends within alloc_size slots
ProbeEnds(h, m, key, hash) ==
    ProbeWithin(h, m, key, hash, HashMod(hash, h.alloc_size), h.alloc_size)
        \in Slots(h)

\* g: the table and memory hashmap_set probes, after its growth check
RoomToInsert(g) ==
    /\ g.hmap.size < g.hmap.alloc_size \div 2
    /\ Filled(g.hmap) # Slots(g.hmap)
    /\ \A key \in CallerKeys :
          ProbeEnds(g.hmap, g.mem, key, hash_key(g.hmap, g.mem, key))

\* C19: after every call size <= floor(alloc_size / 2), so some slot is
\* empty, where the compaction walk of hashmap_remove stops; the table
\* hashmap_set probes after its growth check is less than half full; and
\* the probe for any key ends within alloc_size slots.
C19_LoadFactor ==
    alive =>
        /\ hmap.size <= hmap.alloc_size \div 2
        /\ Cardinality(Filled(hmap)) <= hmap.alloc_size \div 2
        /\ Filled(hmap) # Slots(hmap)
        /\ \A key \in CallerKeys :
              ProbeEnds(hmap, mem, key, hash_key(hmap, mem, key))
        /\ RoomToInsert(GrowIfNeeded(hmap, mem))

\* a table at its load limit: half of the slots filled, a probe that walks
\* over two filled slots, and a growth due at the next hashmap_set
C19_Witness ==
    /\ alive
    /\ hmap.size = hmap.alloc_size \div 2
    /\ GrowIfNeeded(hmap, mem).done
    /\ \E key \in CallerKeys :
          Cardinality(Walk(hmap, HashMod(hash_key(hmap, mem, key), hmap.alloc_size),
                           get_bucket_index(hmap, mem, key,
                                            hash_key(hmap, mem, key)))) >= 3

\* C20: min_size is max(initial_size, 8) and no call changes it;
\* alloc_size is min_size times a power of two; only hashmap_set changes
\* it upwards, by doubling, and only hashmap_remove downwards, by halving;
\* and a table that cannot be halved without going under min_size has
\* alloc_size = min_size.
C20_CapacityShape ==
    [][alive' =>
          /\ hmap.min_size \in {MAX(h, MIN_HASHMAP_SIZE) : h \in SizeHints}
          /\ hmap'.min_size = hmap.min_size
          /\ hmap'.alloc_size
                \in {hmap.alloc_size, 2 * hmap.alloc_size, hmap.alloc_size \div 2}
          /\ hmap'.alloc_size > hmap.alloc_size => SetStep
          /\ hmap'.alloc_size < hmap.alloc_size =>
                RemoveStep /\ 2 * hmap'.alloc_size = hmap.alloc_size
          /\ hmap'.alloc_size % hmap'.min_size = 0
          /\ IsPowerOfTwo(hmap'.alloc_size \div hmap'.min_size)
          /\ hmap'.alloc_size \div 2 < hmap'.min_size
                => hmap'.alloc_size = hmap'.min_size]_vars

\* a table whose floor is the initial size, no power of two, that has
\* doubled and that the next removal halves back to the floor
C20_Witness ==
    /\ alive
    /\ hmap.min_size = MaxHint
    /\ hmap.alloc_size = 2 * hmap.min_size
    /\ \E key \in CallerKeys :
          /\ hashmap_remove(hmap, mem, key).rh
          /\ hashmap_remove(hmap, mem, key).hmap.alloc_size = hmap.min_size
          /\ hashmap_remove(hmap, mem, key).hmap.min_size = hmap.min_size

\* a * b modulo 2^(8 * w), on little-endian byte sequences of length w
TimesMod(a, b, w) ==
    LET RECURSIVE digit(_, _)
        digit(k, carry) ==
            IF k > w THEN <<>>
            ELSE <<(Column(a, b, k) + carry) % 256>>
                    \o digit(k + 1, (Column(a, b, k) + carry) \div 256)
    IN digit(1, 0)

\* FNV-1a over a byte sequence, from hash: for every byte, xor it into the
\* low byte of the hash, then multiply by the prime, modulo 2^(8 * w)
RECURSIVE Fnv1a(_, _, _, _)
Fnv1a(hash, bytes, prime, w) ==
    IF bytes = <<>> THEN hash
    ELSE Fnv1a(TimesMod([hash EXCEPT ![1] = xor(@, Head(bytes))], prime, w),
               Tail(bytes), prime, w)

\* the bytes key_equals compares: key_size of them, or the bytes up to and
\* including the zero terminator
EqualitySpan(key_size, bytes) ==
    IF key_size < 0 THEN SubSeq(bytes, 1, NumBytes(bytes, 0))
    ELSE SubSeq(bytes, 1, key_size)

\* key_size bytes, or the bytes before the zero terminator
BeforeTerminator(key_size, bytes) ==
    IF key_size < 0 THEN SubSeq(bytes, 1, NumBytes(bytes, 0) - 1)
    ELSE SubSeq(bytes, 1, key_size)

\* the hash of a byte span with the constants of the build that made the
\* last call
BuildHash(span) ==
    IF last.op = "hash_key" THEN Fnv1a(FNV_BASIS, span, FNV_PRIME, HASH_BYTES)
    ELSE Fnv1a(FNV_BASIS_32, span, FNV_PRIME_32, HASH_BYTES_32)

HashOps == {"hash_key", "hash_key_32"}

\* key_equals compares exactly the span EqualitySpan
EqualityOverSpan ==
    last.op = "key_equals" =>
        last.ret = (EqualitySpan(hmap.key_size, mem.live[KeyA])
                        = EqualitySpan(hmap.key_size, mem.live[KeyB]))

\* C17 as stated: hash_key hashes the span key_equals compares: key_size
\* bytes, or the bytes up to and including the zero terminator.
C17_HashOverEqualitySpan ==
    /\ EqualityOverSpan
    /\ last.op \in HashOps =>
          last.ret = BuildHash(EqualitySpan(hmap.key_size, mem.live[last.key]))

\* C17, amended: with variable-length keys hash_key stops before the zero
\* terminator, which key_equals compares; with fixed-size keys both cover
\* key_size bytes.  The spans differ by the terminator alone, so keys that
\* key_equals finds equal have one hash.
C17_HashBeforeTerminator ==
    /\ EqualityOverSpan
    /\ last.op \in HashOps =>
          /\ last.ret
                = BuildHash(BeforeTerminator(hmap.key_size, mem.live[last.key]))
          /\ hmap.key_size < 0 =>
                EqualitySpan(hmap.key_size, mem.live[last.key])
                    = BeforeTerminator(hmap.key_size, mem.live[last.key]) \o <<0>>
    /\ key_equals(hmap, mem, KeyA, KeyB) =>
          /\ HashLoop(hmap.key_size, mem.live[KeyA])
                = HashLoop(hmap.key_size, mem.live[KeyB])
          /\ HashLoop32(hmap.key_size, mem.live[KeyA])
                = HashLoop32(hmap.key_size, mem.live[KeyB])

\* a one-byte string has been hashed, and another block holding the same
\* string and another byte after the terminator is equal to it
C17_Witness ==
    /\ last.op = "hash_key"
    /\ last.key = KeyA
    /\ hmap.key_size < 0
    /\ NumBytes(mem.live[KeyA], 0) = 2
    /\ mem.live[KeyA] # mem.live[KeyB]
    /\ key_equals(hmap, mem, KeyA, KeyB)

\* C18: hash_key is FNV-1a with the standard parameters of the word width:
\* offset basis 0xcbf29ce484222325 and prime 0x100000001b3 on a 64 bit
\* target, offset basis 0x811c9dc5 and prime 0x01000193 on a 32 bit target.
C18_StandardFnv ==
    /\ last.op = "hash_key" =>
          last.ret = Fnv1a(<<37, 35, 34, 132, 228, 156, 242, 203>>,
                           BeforeTerminator(hmap.key_size, mem.live[last.key]),
                           <<179, 1, 0, 0, 0, 1, 0, 0>>, 8)
    /\ last.op = "hash_key_32" =>
          last.ret = Fnv1a(<<197, 157, 28, 129>>,
                           BeforeTerminator(hmap.key_size, mem.live[last.key]),
                           <<147, 1, 0, 1>>, 4)

====
